---- MODULE Spec2Model ----
(***************************************************************************)
(* A model of the FastAPI file-upload benchmark: the server (server.py:    *)
(* TimingMiddleware and the five upload handlers), the client (client.py:  *)
(* upload_file, run_benchmark, save_results) and the history data model    *)
(* (models.py).                                                            *)
(*                                                                         *)
(* Numbers.  time.perf_counter() is the variable `now`, counted in clock   *)
(* ticks; a duration is a difference of two readings.  Sizes in MB are     *)
(* exact rationals <<num, den>> in lowest terms.  Text produced by str()   *)
(* is <<"str", x>>, so that float() of a header is a real parse that can   *)
(* fail.                                                                   *)
(***************************************************************************)
EXTENDS Integers, Sequences, FiniteSets, TLC

VARIABLES
    \* ---- server process ----
    now,        \* time.perf_counter(), in ticks
    rss,        \* psutil memory_info().rss, in bytes
    ctx,        \* ContextVar storage: context id -> [var -> value]
    spc,        \* request -> position of its dispatch / handler
    sreq,       \* request -> [endpoint, body_len]
    mw,         \* request -> locals of TimingMiddleware.dispatch
    hl,         \* request -> locals of the handler
    resp,       \* request -> response sent to the client
    entry_memory \* history: request -> process memory when its handler was entered

VARIABLES
    \* ---- results store (benchmark_results.json) and save_results ----
    store,      \* the content of RESULTS_FILE, or Missing
    wpc,        \* writer -> position in save_results
    whist,      \* writer -> `history`, the local of save_results
    wrun,       \* writer -> `benchmark_run`, the argument of save_results
    calls       \* history: the runs passed to save_results, in call order

VARIABLES
    \* ---- client process: run_benchmark ----
    net,        \* what the network and the server may answer: "basic" or "rich"
    files,      \* test_files in dict order: sequence of [label, size_bytes]
    cpc,        \* position in run_benchmark
    ci,         \* index of the size row in `files`
    cj,         \* index of the endpoint in ENDPOINTS
    endpoint_results,   \* endpoint name -> EndpointMetrics, for the current row
    test_results,       \* list of FileSizeTest
    in_flight,  \* the trials whose round trip has begun and not ended
    log,        \* history: the finished trials, [label, endpoint, ok]
    last        \* history: the most recent finished trial and the reply it got

VARIABLES
    \* ---- client process: one call of upload_file after another ----
    upc,        \* position in upload_file
    utrial,     \* the number of the call in progress (0 before the first)
    uendpoint,  \* its `endpoint` argument
    clients,    \* the httpx.AsyncClient objects that are open, by call
    handles,    \* the file objects that are open, by call
    pending,    \* what the POST gave: a response, or the exception in flight
    opened,     \* history: call -> how many clients and files it has opened
    exits       \* history: call -> how it left upload_file

server_vars == <<now, rss, ctx, spc, sreq, mw, hl, resp, entry_memory>>
store_vars == <<store, wpc, whist, wrun, calls>>
client_vars == <<net, files, cpc, ci, cj, endpoint_results, test_results,
                 in_flight, log, last>>
VARIABLES
    \* ---- client process: module-level code and the preparation of test files ----
    fpc,        \* position: the FILE_SIZES loop, the preparation loop, generate_test_file
    fsize,      \* `size_bytes`, the loop variable of the FILE_SIZES loop (a Python int)
    FILE_SIZES, \* the list of [label, size_bytes]
    fk,         \* index in FILE_SIZES of the preparation loop
    test_files, \* dict: label -> file name
    disk,       \* TEST_FILES_DIR as seen so far: file name -> size, NoFile if absent
    gremaining  \* `remaining` of generate_test_file

VARIABLES
    \* ---- history of the saves, for concurrent writers ----
    raced,      \* some writer loaded the store while another had loaded and not yet written
    writes      \* the writes of the store in order: [writer, run]

upload_vars == <<upc, utrial, uendpoint, clients, handles, pending, opened, exits>>
files_vars == <<fpc, fsize, FILE_SIZES, fk, test_files, disk, gremaining>>
race_vars == <<raced, writes>>
vars == <<server_vars, store_vars, client_vars, upload_vars, files_vars, race_vars>>

-----------------------------------------------------------------------------
\* Bounds of the model.
MaxClock == 2       \* perf_counter readings 0..MaxClock
MaxMem == 1         \* process memory 0..MaxMem MiB
MaxChunks == 4      \* request bodies of up to MaxChunks * CHUNK_SIZE bytes
NumRequests == 2    \* requests serviced concurrently
MaxRuns == 3        \* calls of save_results
NumStamps == 3      \* distinct timestamps a run may carry
NumSizes == 2       \* entries of FILE_SIZES a run of the matrix goes through
MaxTrials == 3      \* calls of upload_file made one after another

-----------------------------------------------------------------------------
\* Exact rational arithmetic for Python floats that are quotients of integers.
gcd[p \in Nat \X Nat] == IF p[2] = 0 THEN p[1] ELSE gcd[<<p[2], p[1] % p[2]>>]
GCD(a, b) == gcd[<<a, b>>]

Abs(x) == IF x < 0 THEN -x ELSE x

\* n / d in lowest terms, d # 0
Rat(n, d) ==
    LET g == GCD(Abs(n), Abs(d))
        s == IF d < 0 THEN -1 ELSE 1
    IN  <<(s * n) \div g, (s * d) \div g>>

RatDivInt(q, k) == Rat(q[1], q[2] * k)
RatSub(p, q) == Rat(p[1] * q[2] - q[1] * p[2], p[2] * q[2])

\* str(x) of a float is the text [text |-> "num", val |-> x]; any other text
\* is not a number.  float(s) gives the number of the first and raises
\* ValueError on the rest.
Str(x) == [text |-> "num", val |-> x]
JunkText == [text |-> "junk"]
FloatRaises(s) == s.text # "num"
Float(s) == s.val

Min(a, b) == IF a < b THEN a ELSE b

\* A Python int, which has no width: two limbs <<hi, lo>> of value
\* hi * Limb + lo with 0 <= lo < Limb.
Limb == 1048576
PyInt(n) == <<n \div Limb, n % Limb>>
IntValue(a) == a[1] * Limb + a[2]
IntLessEq(a, b) == a[1] < b[1] \/ (a[1] = b[1] /\ a[2] <= b[2])
IntTimes2(a) == <<2 * a[1] + (2 * a[2]) \div Limb, (2 * a[2]) % Limb>>

-----------------------------------------------------------------------------
\* server.py

CHUNK_SIZE == 256 * 1024

Requests == 1 .. NumRequests

\* The five routes, and the handler registered for each.
Routes == {"/upload/sync-file", "/upload/async-file", "/upload/sync-uploadfile",
           "/upload/async-uploadfile", "/upload/async-stream"}

\* The `endpoint=` literal each handler puts in its ServerResponse.
HandlerName(path) ==
    CASE path = "/upload/sync-file" -> "sync-file"
      [] path = "/upload/async-file" -> "async-file"
      [] path = "/upload/sync-uploadfile" -> "sync-uploadfile"
      [] path = "/upload/async-uploadfile" -> "async-uploadfile"
      [] path = "/upload/async-stream" -> "async-stream"

\* How the framework hands the body to the handler: a bytes object, an
\* UploadFile, or the request's stream.
BodyForm(path) ==
    CASE path \in {"/upload/sync-file", "/upload/async-file"} -> "bytes"
      [] path \in {"/upload/sync-uploadfile", "/upload/async-uploadfile"} -> "uploadfile"
      [] path = "/upload/async-stream" -> "stream"

\* get_memory_usage_mb(): rss / 1024 / 1024
get_memory_usage_mb == RatDivInt(RatDivInt(Rat(rss, 1), 1024), 1024)

\* ContextVar: a value set in a context is visible in that context and in the
\* contexts copied from it afterwards.  Each request is served in a context of
\* its own.
\* A variable or a ContextVar that holds nothing yet: a time, a memory reading.
Unset == -1
UnsetMB == <<0, 0>>
NoContext == [request_start_time |-> Unset, request_start_memory |-> UnsetMB]
\* (a variant: one storage shared by every request, as a module global would be)
SharedContext(r) == 1
ContextOf(r) == r

NoLocals == [start_time |-> Unset, start_memory |-> UnsetMB, end_time |-> Unset]
NoHandler == [start_memory |-> UnsetMB, handler_start_time |-> Unset,
              file_size |-> 0, remaining |-> 0,
              handler_end_time |-> Unset]
NoHeaders == [h \in {} |-> Str(0)]
NoResponse == [status |-> 0, headers |-> NoHeaders, body |-> [detail |-> "none"]]

InFlight(r) == spc[r] \notin {"none", "responded"}

\* TimingMiddleware.dispatch, up to `await call_next(request)`
DispatchStart(r) ==
    /\ spc[r] = "arrived"
    /\ mw' = [mw EXCEPT ![r].start_time = now, ![r].start_memory = get_memory_usage_mb]
    /\ ctx' = [ctx EXCEPT ![ContextOf(r)] =
                  [request_start_time |-> now,
                   request_start_memory |-> get_memory_usage_mb]]
    /\ spc' = [spc EXCEPT ![r] = "call_next"]
    /\ UNCHANGED <<now, rss, sreq, hl, resp>>

\* call_next: the framework reads what the route's parameters need (the whole
\* multipart body for File() and UploadFile, nothing for the raw stream) and
\* calls the handler.
CallNext(r) ==
    /\ spc[r] = "call_next"
    /\ hl' = [hl EXCEPT ![r] = [NoHandler EXCEPT !.remaining = sreq[r].body_len]]
    /\ spc' = [spc EXCEPT ![r] = "entry"]
    /\ UNCHANGED <<now, rss, ctx, sreq, mw, resp>>

\* (a variant: the handler samples the memory itself on entry)
HandlerStartMemoryAtEntry(r) == get_memory_usage_mb

\* `start_memory = request_start_memory.get()`
HandlerStartMemory(r) == ctx[ContextOf(r)].request_start_memory

\* First statements of every handler: read the start memory, start the timer.
HandlerEntry(r) ==
    /\ spc[r] = "entry"
    /\ hl' = [hl EXCEPT ![r].start_memory = HandlerStartMemory(r),
                        ![r].handler_start_time = now]
    /\ spc' = [spc EXCEPT ![r] = "body"]
    /\ UNCHANGED <<now, rss, ctx, sreq, mw, resp>>

\* upload_sync_file / upload_async_file: file_size = len(file)
BytesLen(r) ==
    /\ spc[r] = "body"
    /\ BodyForm(sreq[r].endpoint) = "bytes"
    /\ hl' = [hl EXCEPT ![r].file_size = hl[r].remaining, ![r].remaining = 0]
    /\ spc' = [spc EXCEPT ![r] = "exit"]
    /\ UNCHANGED <<now, rss, ctx, sreq, mw, resp>>

\* (a variant: a read that returns only full chunks)
ReadLenFullOnly(remaining) == IF remaining < CHUNK_SIZE THEN 0 ELSE CHUNK_SIZE

\* file.file.read(CHUNK_SIZE) / await file.read(CHUNK_SIZE): up to CHUNK_SIZE
\* bytes from the current position, b"" at the end of the file.
ReadLen(remaining) == Min(CHUNK_SIZE, remaining)

\* One pass of `while chunk := file.file.read(CHUNK_SIZE): file_size += len(chunk)`
ReadChunk(r) ==
    /\ spc[r] = "body"
    /\ BodyForm(sreq[r].endpoint) = "uploadfile"
    /\ LET chunk == ReadLen(hl[r].remaining)
       IN  IF chunk # 0
           THEN /\ hl' = [hl EXCEPT ![r].file_size = @ + chunk, ![r].remaining = @ - chunk]
                /\ UNCHANGED spc
           ELSE /\ spc' = [spc EXCEPT ![r] = "exit"]
                /\ UNCHANGED hl
    /\ UNCHANGED <<now, rss, ctx, sreq, mw, resp>>

\* The sizes of the chunks request.stream() may yield next: whatever part of
\* the body has arrived, in pieces the transport chose.
StreamChunks(remaining) ==
    {c \in {remaining, CHUNK_SIZE, CHUNK_SIZE \div 4} : 0 < c /\ c <= remaining}

\* One pass of `async for chunk in request.stream(): file_size += len(chunk)`;
\* the stream ends with an empty chunk once the body is exhausted.
StreamChunk(r) ==
    /\ spc[r] = "body"
    /\ BodyForm(sreq[r].endpoint) = "stream"
    /\ \/ \E chunk \in StreamChunks(hl[r].remaining) :
            /\ hl' = [hl EXCEPT ![r].file_size = @ + chunk, ![r].remaining = @ - chunk]
            /\ UNCHANGED spc
       \/ /\ hl[r].remaining = 0
          /\ spc' = [spc EXCEPT ![r] = "exit"]
          /\ UNCHANGED hl
    /\ UNCHANGED <<now, rss, ctx, sreq, mw, resp>>

\* ServerResponse(...) as each handler builds it
ServerResponse(name, file_size, handler_duration, start_memory, end_memory) ==
    [endpoint |-> name,
     file_size_bytes |-> file_size,
     file_size_mb |-> RatDivInt(RatDivInt(Rat(file_size, 1), 1024), 1024),
     handler_duration_seconds |-> handler_duration,
     memory_start_mb |-> start_memory,
     memory_end_mb |-> end_memory,
     memory_delta_mb |-> RatSub(end_memory, start_memory)]

\* Last statements of every handler: stop the timer, sample the memory, return.
HandlerExit(r) ==
    /\ spc[r] = "exit"
    /\ hl' = [hl EXCEPT ![r].handler_end_time = now]
    /\ resp' = [resp EXCEPT ![r] =
                  [status |-> 200,
                   headers |-> NoHeaders,
                   body |-> ServerResponse(HandlerName(sreq[r].endpoint),
                                           hl[r].file_size,
                                           now - hl[r].handler_start_time,
                                           hl[r].start_memory,
                                           get_memory_usage_mb)]]
    /\ spc' = [spc EXCEPT ![r] = "returned"]
    /\ UNCHANGED <<now, rss, ctx, sreq, mw>>

\* The handler raises (a read error, a client disconnect in request.stream(),
\* a psutil error): the exception leaves the handler.
HandlerRaise(r) ==
    /\ spc[r] = "body"
    /\ spc' = [spc EXCEPT ![r] = "raised"]
    /\ UNCHANGED <<now, rss, ctx, sreq, mw, hl, resp>>

\* (a variant: the end time read before the handler ran)
TotalDurationEarly(r) == hl[r].handler_start_time - mw[r].start_time

\* `total_duration = end_time - start_time`, end_time read after call_next
TotalDuration(r) == now - mw[r].start_time

\* The two headers dispatch puts on the response
TimingHeaders(total_duration, memory_delta) ==
    [h \in {"X-Total-Duration", "X-Total-Memory-Delta"} |->
        IF h = "X-Total-Duration" THEN Str(total_duration) ELSE Str(memory_delta)]

\* TimingMiddleware.dispatch after call_next returned a response
DispatchEnd(r) ==
    /\ spc[r] = "returned"
    /\ resp' = [resp EXCEPT ![r].headers =
                  TimingHeaders(TotalDuration(r),
                                RatSub(get_memory_usage_mb, mw[r].start_memory))]
    /\ mw' = [mw EXCEPT ![r].end_time = now]
    /\ spc' = [spc EXCEPT ![r] = "responded"]
    /\ UNCHANGED <<now, rss, ctx, sreq, hl>>

\* `await call_next(request)` raises what the handler raised: dispatch has no
\* try/finally, so the statements after it do not run and the exception leaves
\* dispatch; the server answers 500 without the interceptor's headers.
DispatchRaise(r) ==
    /\ spc[r] = "raised"
    /\ resp' = [resp EXCEPT ![r] =
                  [status |-> 500, headers |-> NoHeaders,
                   body |-> [detail |-> "Internal Server Error"]]]
    /\ spc' = [spc EXCEPT ![r] = "responded"]
    /\ UNCHANGED <<now, rss, ctx, sreq, mw, hl>>

\* The response has gone out: the request's task ends, and its context and
\* locals with it.
Finish(r) ==
    /\ spc[r] = "responded"
    /\ spc' = [spc EXCEPT ![r] = "none"]
    /\ ctx' = [ctx EXCEPT ![ContextOf(r)] = NoContext]
    /\ mw' = [mw EXCEPT ![r] = NoLocals]
    /\ hl' = [hl EXCEPT ![r] = NoHandler]
    /\ resp' = [resp EXCEPT ![r] = NoResponse]
    /\ UNCHANGED <<now, rss, sreq>>

\* The clock advances and the process memory changes while a request is served.
Tick ==
    /\ \E r \in Requests : InFlight(r)
    /\ now < MaxClock
    /\ now' = now + 1
    /\ UNCHANGED <<rss, ctx, spc, sreq, mw, hl, resp>>

MemChange ==
    /\ \E r \in Requests : InFlight(r)
    /\ \E m \in 0 .. MaxMem :
          /\ m * 1048576 # rss
          /\ rss' = m * 1048576
    /\ UNCHANGED <<now, ctx, spc, sreq, mw, hl, resp>>

\* Body lengths: 0, and the lengths at and next to each multiple of CHUNK_SIZE.
BodyLens == {n \in {k * CHUNK_SIZE + d : k \in 0 .. MaxChunks, d \in {-1, 0, 1}} :
                 0 <= n /\ n <= MaxChunks * CHUNK_SIZE}

InitServerIdle ==
    /\ now = 0
    /\ rss = 0
    /\ ctx = [c \in Requests |-> NoContext]
    /\ sreq = [r \in Requests |-> [endpoint |-> "/upload/sync-file", body_len |-> 0]]
    /\ spc = [r \in Requests |-> "none"]
    /\ mw = [r \in Requests |-> NoLocals]
    /\ hl = [r \in Requests |-> NoHandler]
    /\ resp = [r \in Requests |-> NoResponse]
    /\ entry_memory = [r \in Requests |-> UnsetMB]

ServerStep(r) ==
    \/ DispatchStart(r)
    \/ CallNext(r)
    \/ HandlerEntry(r)
    \/ BytesLen(r)
    \/ ReadChunk(r)
    \/ StreamChunk(r)
    \/ HandlerExit(r)
    \/ HandlerRaise(r)
    \/ DispatchEnd(r)
    \/ DispatchRaise(r)
    \/ Finish(r)

\* History variable: the process memory at the moment request r's handler is
\* entered.
ObserveEntry ==
    entry_memory' = [r \in Requests |->
                        IF spc[r] = "entry" /\ spc'[r] = "body"
                        THEN get_memory_usage_mb ELSE entry_memory[r]]

-----------------------------------------------------------------------------
\* models.py and save_results (client.py)

ENDPOINTS == <<"/upload/sync-file", "/upload/async-file", "/upload/sync-uploadfile",
               "/upload/async-uploadfile", "/upload/async-stream">>

Writers == {1, 2}

\* The store: whether RESULTS_FILE exists, and its text.
NoText == [json |-> [runs |-> << >>]]
Missing == [exists |-> FALSE, text |-> NoText]
File(text) == [exists |-> TRUE, text |-> text]

\* datetime <-> ISO-8601 text, as pydantic writes and reads it
IsoFormat(t) == [iso |-> t]
FromIso(x) == x.iso

\* BenchmarkRun <-> its JSON object
DumpRun(run) == [run EXCEPT !.timestamp = IsoFormat(run.timestamp)]
LoadRun(obj) == [obj EXCEPT !.timestamp = FromIso(obj.timestamp)]

\* history.model_dump_json(indent=2): the whole history, every run
model_dump_json(history) ==
    [json |-> [runs |-> [k \in 1 .. Len(history.runs) |-> DumpRun(history.runs[k])]]]

\* BenchmarkHistory.model_validate_json(f.read())
model_validate_json(text) ==
    [runs |-> [k \in 1 .. Len(text.json.runs) |-> LoadRun(text.json.runs[k])]]

\* (a variant: the new run put in front)
add_run_front(history, run) == [runs |-> <<run>> \o history.runs]

\* BenchmarkHistory.add_run: self.runs.append(run)
add_run(history, run) == [runs |-> Append(history.runs, run)]

BenchmarkHistory(runs) == [runs |-> runs]

BenchmarkRun(timestamp, results, endpoints) ==
    [timestamp |-> timestamp, test_files |-> results, endpoints |-> endpoints,
     summary |-> << >>]

NoRun == BenchmarkRun(0, << >>, << >>)

\* save_results is called with benchmark_run
SaveCall(w, run) ==
    /\ wpc[w] = "idle"
    /\ wrun' = [wrun EXCEPT ![w] = run]
    /\ wpc' = [wpc EXCEPT ![w] = "load"]
    /\ calls' = Append(calls, run)
    /\ UNCHANGED <<store, whist>>

\* pydantic rejects a text that is not JSON, and a JSON object without the
\* required field `runs`
ValidationFails(text) == ~("json" \in DOMAIN text /\ "runs" \in DOMAIN text.json)

\* (a variant: a store that does not parse is taken for an empty history)
LoadOutcomeRecovering(s) ==
    IF ~s.exists \/ ValidationFails(s.text)
    THEN [exc |-> "none", history |-> BenchmarkHistory(<< >>)]
    ELSE [exc |-> "none", history |-> model_validate_json(s.text)]

\* if RESULTS_FILE.exists(): history = model_validate_json(f.read())
\* else: history = BenchmarkHistory(runs=[])
\* The outcome: the history, or the ValidationError that model_validate_json raises
LoadOutcome(s) ==
    IF ~s.exists THEN [exc |-> "none", history |-> BenchmarkHistory(<< >>)]
    ELSE IF ValidationFails(s.text)
    THEN [exc |-> "ValidationError", history |-> BenchmarkHistory(<< >>)]
    ELSE [exc |-> "none", history |-> model_validate_json(s.text)]

\* The load step, when it gives a history
SaveLoad(w) ==
    /\ wpc[w] = "load"
    /\ LoadOutcome(store).exc = "none"
    /\ whist' = [whist EXCEPT ![w] = LoadOutcome(store).history]
    /\ wpc' = [wpc EXCEPT ![w] = "add"]
    /\ UNCHANGED <<store, wrun, calls>>

\* The load step, when model_validate_json raises: the exception leaves
\* save_results, which has no handler
SaveLoadRaise(w) ==
    /\ wpc[w] = "load"
    /\ LoadOutcome(store).exc # "none"
    /\ wpc' = [wpc EXCEPT ![w] = "raised"]
    /\ UNCHANGED <<store, whist, wrun, calls>>

\* history.add_run(benchmark_run)
SaveAdd(w) ==
    /\ wpc[w] = "add"
    /\ whist' = [whist EXCEPT ![w] = add_run(whist[w], wrun[w])]
    /\ wpc' = [wpc EXCEPT ![w] = "write"]
    /\ UNCHANGED <<store, wrun, calls>>

\* (a variant: the new run added to what the store holds at the time of the write)
SaveWriteMerging(w) ==
    /\ wpc[w] = "write"
    /\ store' = File(model_dump_json(add_run(
                     IF store.exists THEN model_validate_json(store.text)
                     ELSE BenchmarkHistory(<< >>), wrun[w])))
    /\ wpc' = [wpc EXCEPT ![w] = "idle"]
    /\ whist' = [whist EXCEPT ![w] = BenchmarkHistory(<< >>)]
    /\ wrun' = [wrun EXCEPT ![w] = NoRun]
    /\ UNCHANGED calls

\* with open(RESULTS_FILE, "w") as f: f.write(history.model_dump_json(indent=2))
SaveWrite(w) ==
    /\ wpc[w] = "write"
    /\ store' = File(model_dump_json(whist[w]))
    /\ wpc' = [wpc EXCEPT ![w] = "idle"]
    /\ whist' = [whist EXCEPT ![w] = BenchmarkHistory(<< >>)]
    /\ wrun' = [wrun EXCEPT ![w] = NoRun]
    /\ UNCHANGED calls

SaveStep(w) == SaveLoad(w) \/ SaveAdd(w) \/ SaveWrite(w)

\* No call of upload_file has been made
NoPending == [exc |-> "none", status |-> 0, text |-> [junk |-> "none"],
              headers |-> [h \in {} |-> [text |-> "num", val |-> 0]], elapsed |-> 0]
UploadIdle ==
    /\ upc = "idle"
    /\ utrial = 0
    /\ uendpoint = "/upload/sync-file"
    /\ clients = {}
    /\ handles = {}
    /\ pending = NoPending
    /\ opened = << >>
    /\ exits = << >>

\* The module is being loaded: FILE_SIZES = [] and size_bytes = 1024
NoFile == -1
FilesIdle ==
    /\ fpc = "sizes"
    /\ fsize = PyInt(1024)
    /\ FILE_SIZES = << >>
    /\ fk = 1
    /\ test_files = [k \in {} |-> 0]
    /\ disk = [k \in {} |-> 0]
    /\ gremaining = 0

StoreIdle ==
    /\ store = Missing
    /\ wpc = [w \in Writers |-> "idle"]
    /\ whist = [w \in Writers |-> BenchmarkHistory(<< >>)]
    /\ wrun = [w \in Writers |-> NoRun]
    /\ calls = << >>
    /\ raced = FALSE
    /\ writes = << >>

\* The runs the store holds, as load reads them
PersistedIn(s) == IF s.exists THEN model_validate_json(s.text).runs ELSE << >>
Persisted == PersistedIn(store)

ClientIdle ==
    /\ net = "basic"
    /\ files = << >>
    /\ cpc = "idle"
    /\ ci = 1
    /\ cj = 1
    /\ endpoint_results = << >>
    /\ test_results = << >>
    /\ in_flight = {}
    /\ log = << >>
    /\ last = << >>

\* One writer calling save_results up to MaxRuns times on a store that does
\* not exist at first.
SomeRuns == {BenchmarkRun(t, << >>, ENDPOINTS) : t \in 1 .. NumStamps}

InitStore ==
    /\ StoreIdle
    /\ ClientIdle
    /\ UploadIdle
    /\ FilesIdle
    /\ InitServerIdle

NextStore ==
    /\ \/ \E run \in SomeRuns : Len(calls) < MaxRuns /\ SaveCall(1, run)
       \/ SaveStep(1)
    /\ UNCHANGED <<server_vars, client_vars, upload_vars, files_vars, race_vars>>

SpecStore == InitStore /\ [][NextStore]_vars

\* History variables of the saves
ObserveRace ==
    /\ raced' = (raced \/ \E w, v \in Writers :
                              /\ w # v
                              /\ wpc[w] = "load" /\ wpc'[w] = "add"
                              /\ wpc[v] \in {"add", "write"})
    /\ writes' = IF \E w \in Writers : wpc[w] = "write" /\ wpc'[w] = "idle"
                 THEN LET w == CHOOSE w \in Writers : wpc[w] = "write" /\ wpc'[w] = "idle"
                      IN  Append(writes, [writer |-> w, run |-> wrun[w]])
                 ELSE writes

\* Two processes calling save_results on the same RESULTS_FILE, their steps
\* interleaved in every way; each run carries the time of its call.
NextRace ==
    /\ \E w \in Writers :
          \/ /\ Len(calls) < MaxRuns
             /\ SaveCall(w, BenchmarkRun(Len(calls) + 1, << >>, ENDPOINTS))
          \/ SaveStep(w)
    /\ ObserveRace
    /\ UNCHANGED <<server_vars, client_vars, upload_vars, files_vars>>

SpecRace == InitStore /\ [][NextRace]_vars

-----------------------------------------------------------------------------
\* client.py: upload_file and run_benchmark

\* The label the module-level loop gives a size
Label(size_bytes) ==
    IF size_bytes < 1024 THEN <<size_bytes, "B">>
    ELSE IF size_bytes < 1024 * 1024 THEN <<size_bytes \div 1024, "KB">>
    ELSE IF size_bytes < 1024 * 1024 * 1024 THEN <<size_bytes \div (1024 * 1024), "MB">>
    ELSE <<size_bytes \div (1024 * 1024 * 1024), "GB">>

\* The k-th entry of FILE_SIZES: sizes start at 1024 and double
FileSizeEntry(k) == [label |-> Label(1024 * 2 ^ (k - 1)), size_bytes |-> 1024 * 2 ^ (k - 1)]

\* endpoint.replace("/upload/", "")
EndpointName(endpoint) == HandlerName(endpoint)

\* What a POST may come back with: an exception raised by the HTTP client, or a
\* response with a status, a text and headers.  `elapsed` is the wall-clock
\* time of the round trip, longer than anything the server measures.
Reply(exc, status, text, headers, elapsed) ==
    [exc |-> exc, status |-> status, text |-> text, headers |-> headers,
     elapsed |-> elapsed]

\* The response body of a handler, as JSON text
ToJson(server_response) == [json |-> server_response]

\* A 200 response of this server for a body of `size` bytes: the handler's
\* ServerResponse and the interceptor's two headers.
ServerReply(endpoint, size, handler_duration, total_duration) ==
    Reply("none", 200,
          ToJson(ServerResponse(HandlerName(endpoint), size, handler_duration,
                                <<0, 1>>, <<1, 1>>)),
          TimingHeaders(total_duration, <<1, 1>>),
          MaxClock + 1)

\* The same response with header h removed, or with text that is no number in it
Without(headers, h) == [k \in DOMAIN headers \ {h} |-> headers[k]]
Garbled(headers, h) == [headers EXCEPT ![h] = JunkText]

ErrorReplies ==
    {Reply("TimeoutException", 0, [junk |-> "none"], NoHeaders, MaxClock + 1),
     Reply("ConnectError", 0, [junk |-> "none"], NoHeaders, MaxClock + 1),
     Reply("none", 500, [junk |-> "Internal Server Error"], NoHeaders, MaxClock + 1)}

\* "basic": the server answers as server.py does, or the trial fails.
BasicReplies(endpoint, size) == {ServerReply(endpoint, size, 1, 2)} \cup ErrorReplies

\* "rich": also every total duration the clock allows, a body that is not a
\* ServerResponse, and either header missing or garbled.
RichReplies(endpoint, size) ==
    LET good == {ServerReply(endpoint, size, 0, d) : d \in 0 .. MaxClock}
        hs == {"X-Total-Duration", "X-Total-Memory-Delta"}
    IN  good
        \cup ErrorReplies
        \cup {[g EXCEPT !.text = [junk |-> "not json"]] : g \in good}
        \cup {[g EXCEPT !.headers = Without(g.headers, h)] : g \in good, h \in hs}
        \cup {[g EXCEPT !.headers = Garbled(g.headers, h)] : g \in good, h \in hs}
        \cup {[g EXCEPT !.headers = NoHeaders] : g \in good}

Replies(endpoint, size) ==
    IF net = "rich" THEN RichReplies(endpoint, size) ELSE BasicReplies(endpoint, size)

\* The trial succeeds: a 200 response whose text is a ServerResponse and whose
\* timing headers, where present, are numbers.
ReplyOK(reply) ==
    /\ reply.exc = "none"
    /\ reply.status = 200
    /\ "json" \in DOMAIN reply.text
    /\ \A h \in DOMAIN reply.headers : reply.headers[h].text = "num"

\* response.headers.get(name, 0): the text of the header, or the default
HeaderGet(headers, name) == IF name \in DOMAIN headers THEN headers[name] ELSE Str(0)

\* Python's a / b on floats: ZeroDivisionError when b is 0
ZeroDivisionError == <<0, 0>>
Div(q, k) == IF k = 0 THEN ZeroDivisionError ELSE RatDivInt(q, k)
Zero == <<0, 1>>

\* What upload_file does with the reply: raises, returns the error dict, or
\* returns the merged dict.
Raise(exc) == [kind |-> "raise", exc |-> exc]
upload_file(reply) ==
    IF reply.exc # "none" THEN Raise(reply.exc)
    ELSE IF reply.status # 200
    THEN [kind |-> "error", error |-> <<"HTTP", reply.status>>,
          client_duration |-> reply.elapsed]
    ELSE IF "json" \notin DOMAIN reply.text THEN Raise("ValidationError")
    ELSE IF FloatRaises(HeaderGet(reply.headers, "X-Total-Duration"))
    THEN Raise("ValueError")
    ELSE IF FloatRaises(HeaderGet(reply.headers, "X-Total-Memory-Delta"))
    THEN Raise("ValueError")
    ELSE [kind |-> "ok",
          server_response |-> reply.text.json,
          client_duration |-> reply.elapsed,
          total_duration |-> Float(HeaderGet(reply.headers, "X-Total-Duration")),
          total_memory_delta |->
              IF "X-Total-Memory-Delta" \in DOMAIN reply.headers
              THEN Float(reply.headers["X-Total-Memory-Delta"]) ELSE Zero]

\* (a variant: the division without its guard)
ThroughputUnguarded(file_size_mb, total_duration) == Div(file_size_mb, total_duration)

\* server_response.file_size_mb / total_duration if total_duration > 0 else 0
Throughput(file_size_mb, total_duration) ==
    IF total_duration > 0 THEN Div(file_size_mb, total_duration) ELSE Zero

\* EndpointMetrics(...) as run_benchmark builds it from the merged dict
EndpointMetrics(endpoint_name, result) ==
    [endpoint |-> endpoint_name,
     file_size_bytes |-> result.server_response.file_size_bytes,
     file_size_mb |-> result.server_response.file_size_mb,
     handler_duration_seconds |-> result.server_response.handler_duration_seconds,
     total_duration_seconds |-> result.total_duration,
     total_throughput_mbps |->
         Throughput(result.server_response.file_size_mb, result.total_duration),
     total_memory_delta_mb |-> result.total_memory_delta,
     memory_start_mb |-> result.server_response.memory_start_mb,
     memory_end_mb |-> result.server_response.memory_end_mb,
     memory_delta_mb |-> result.server_response.memory_delta_mb,
     client_duration |-> result.client_duration]

\* dict[key] = value
Put(d, key, value) == [k \in DOMAIN d \cup {key} |-> IF k = key THEN value ELSE d[k]]
EmptyDict == [k \in {} |-> 0]

\* The body of the try block for one endpoint: the mapping after it.  An error
\* dict and every exception (of upload_file, or of building the metrics)
\* leave the mapping as it is.
Recorded(results, endpoint_name, result) ==
    IF result.kind # "ok" THEN results
    ELSE IF Throughput(result.server_response.file_size_mb, result.total_duration)
                = ZeroDivisionError
    THEN results
    ELSE Put(results, endpoint_name, EndpointMetrics(endpoint_name, result))

\* (a variant: a failed trial ends the row, as `break` would)
NextEndpointBreak(j, result) == IF result.kind # "ok" THEN Len(ENDPOINTS) + 1 ELSE j + 1

\* `for endpoint in ENDPOINTS`, with `continue` on a failed trial
NextEndpoint(j, result) == j + 1

\* (a variant: the endpoints taken from the end of the list)
TrialEndpointReversed(j) == ENDPOINTS[Len(ENDPOINTS) + 1 - j]

\* the endpoint of the j-th pass of the inner loop
TrialEndpoint(j) == ENDPOINTS[j]

FileSizeTest(label, size_bytes, results) ==
    [file_size_label |-> label, file_size_bytes |-> size_bytes, results |-> results]

\* `for size_name, filepath in test_files.items()`: the next row begins
BeginRow ==
    /\ cpc = "row"
    /\ ci <= Len(files)
    /\ endpoint_results' = EmptyDict
    /\ cj' = 1
    /\ cpc' = "trial"
    /\ UNCHANGED <<net, files, ci, test_results, in_flight, log, last, store_vars>>

\* `await upload_file(endpoint, filepath)` begins: the POST goes out
StartTrial ==
    /\ cpc = "trial"
    /\ cj <= Len(ENDPOINTS)
    /\ in_flight' = in_flight \cup {<<files[ci].label, TrialEndpoint(cj)>>}
    /\ cpc' = "await"
    /\ UNCHANGED <<net, files, ci, cj, endpoint_results, test_results, log, last,
                   store_vars>>

\* The round trip ends: upload_file returns or raises, and run_benchmark
\* records the cell or prints the diagnostic and goes on.
FinishTrial ==
    /\ cpc = "await"
    /\ \E reply \in Replies(TrialEndpoint(cj), files[ci].size_bytes) :
          LET result == upload_file(reply)
              name == EndpointName(TrialEndpoint(cj))
          IN  /\ endpoint_results' = Recorded(endpoint_results, name, result)
              /\ cj' = NextEndpoint(cj, result)
              /\ in_flight' = in_flight \ {<<files[ci].label, TrialEndpoint(cj)>>}
              /\ log' = Append(log, [label |-> files[ci].label,
                                     endpoint |-> TrialEndpoint(cj),
                                     ok |-> ReplyOK(reply)])
              /\ last' = <<[label |-> files[ci].label, name |-> name, reply |-> reply]>>
    /\ cpc' = "trial"
    /\ UNCHANGED <<net, files, ci, test_results, store_vars>>

\* test_results.append(FileSizeTest(...)) after the inner loop
EndRow ==
    /\ cpc = "trial"
    /\ cj > Len(ENDPOINTS)
    /\ test_results' = Append(test_results,
                              FileSizeTest(files[ci].label, files[ci].size_bytes,
                                           endpoint_results))
    /\ ci' = ci + 1
    /\ last' = << >>
    /\ cpc' = "row"
    /\ UNCHANGED <<net, files, cj, endpoint_results, in_flight, log, store_vars>>

\* datetime.now() when the run is built: later than the run of OldStore
Today == 2

\* After the last row: BenchmarkRun(timestamp=datetime.now(), ...) and
\* save_results(benchmark_run)
BuildRun ==
    /\ cpc = "row"
    /\ ci > Len(files)
    /\ SaveCall(1, BenchmarkRun(Today, test_results, ENDPOINTS))
    /\ cpc' = "saving"
    /\ UNCHANGED <<net, files, ci, cj, endpoint_results, test_results, in_flight,
                   log, last>>

\* save_results runs
Saving ==
    /\ cpc = "saving"
    /\ SaveStep(1)
    /\ UNCHANGED client_vars

\* save_results has returned; the closing lines are printed
Complete ==
    /\ cpc = "saving"
    /\ wpc[1] = "idle"
    /\ cpc' = "done"
    /\ UNCHANGED <<net, files, ci, cj, endpoint_results, test_results, in_flight,
                   log, last, store_vars>>

NextClient ==
    /\ \/ BeginRow
       \/ StartTrial
       \/ FinishTrial
       \/ EndRow
       \/ BuildRun
       \/ Saving
       \/ Complete
    /\ UNCHANGED <<server_vars, upload_vars, files_vars, race_vars>>

\* A store left by an earlier run
OldStore == File(model_dump_json(BenchmarkHistory(<<BenchmarkRun(1, << >>, ENDPOINTS)>>)))

InitClient(profile, rows, stores) ==
    /\ InitServerIdle
    /\ UploadIdle
    /\ FilesIdle
    /\ store \in stores
    /\ wpc = [w \in Writers |-> "idle"]
    /\ whist = [w \in Writers |-> BenchmarkHistory(<< >>)]
    /\ wrun = [w \in Writers |-> NoRun]
    /\ calls = << >>
    /\ raced = FALSE
    /\ writes = << >>
    /\ net = profile
    /\ files \in rows
    /\ cpc = "row"
    /\ ci = 1
    /\ cj = 1
    /\ endpoint_results = EmptyDict
    /\ test_results = << >>
    /\ in_flight = {}
    /\ log = << >>
    /\ last = << >>

\* The matrix of the first NumSizes sizes, each trial answered by the server
\* or failing.
InitBench == InitClient("basic", {[k \in 1 .. NumSizes |-> FileSizeEntry(k)]},
                        {Missing, OldStore})
SpecBench == InitBench /\ [][NextClient]_vars

\* One row of the matrix, of any of the first NumSizes sizes, with every kind
\* of reply.
InitTrial == InitClient("rich", {<<FileSizeEntry(k)>> : k \in 1 .. NumSizes}, {Missing})
SpecTrial == InitTrial /\ [][NextClient]_vars

\* save_results raises: run_benchmark has no handler around it, and the
\* exception ends the process
SavingRaise ==
    /\ cpc = "saving"
    /\ SaveLoadRaise(1)
    /\ cpc' = "crashed"
    /\ UNCHANGED <<net, files, ci, cj, endpoint_results, test_results, in_flight,
                   log, last>>

\* Stores that exist and do not parse: a truncated text, an empty file, a JSON
\* object that is no history
CorruptStores == {File([junk |-> "truncated"]), File([junk |-> ""]),
                  File([json |-> [results |-> << >>]])}

\* One row of the matrix, then the save, on a store that is missing, sound or
\* corrupt.
InitCorrupt == InitClient("basic", {<<FileSizeEntry(1)>>},
                          {Missing, OldStore} \cup CorruptStores)

NextCorrupt ==
    \/ NextClient
    \/ /\ SavingRaise
       /\ UNCHANGED <<server_vars, upload_vars, files_vars, race_vars>>

SpecCorrupt == InitCorrupt /\ [][NextCorrupt]_vars

-----------------------------------------------------------------------------
\* client.py: FILE_SIZES, generate_test_file and the preparation of test files

\* (a variant: the loop stops before the limit)
SizesGuardStrict(n) == ~IntLessEq(PyInt(1024 * 1024 * 1024), n)

\* while size_bytes <= 1024 * 1024 * 1024
SizesGuard(n) == IntLessEq(n, PyInt(1024 * 1024 * 1024))

\* One pass of the loop: the label, the append, the doubling
SizesPass ==
    /\ fpc = "sizes"
    /\ SizesGuard(fsize)
    /\ FILE_SIZES' = Append(FILE_SIZES, [label |-> Label(IntValue(fsize)),
                                         size_bytes |-> IntValue(fsize)])
    /\ fsize' = IntTimes2(fsize)
    /\ UNCHANGED <<fpc, fk, test_files, disk, gremaining>>

\* The loop is left; run_benchmark starts with test_files = {}
SizesDone ==
    /\ fpc = "sizes"
    /\ ~SizesGuard(fsize)
    /\ fpc' = "prepare"
    /\ fk' = 1
    /\ test_files' = [k \in {} |-> 0]
    /\ UNCHANGED <<fsize, FILE_SIZES, disk, gremaining>>

\* f"test_{size_name}.bin"
Filename(size_name) == <<"test_", size_name, ".bin">>

\* What may be on disk under a file name before the run looks at it: nothing,
\* a file of another size, a file of the right size
OnDisk(size) == {NoFile, size \div 2, size}

\* filepath.exists() and filepath.stat().st_size == size_bytes
Reusable(found, size) == found # NoFile /\ found = size

\* The file is there with the right size: it is reused
PrepareReuse ==
    /\ fpc = "prepare"
    /\ fk <= Len(FILE_SIZES)
    /\ LET size_name == FILE_SIZES[fk].label
           filename == Filename(size_name)
       IN  \E found \in OnDisk(FILE_SIZES[fk].size_bytes) :
              /\ Reusable(found, FILE_SIZES[fk].size_bytes)
              /\ disk' = Put(disk, filename, found)
              /\ test_files' = Put(test_files, size_name, filename)
    /\ fk' = fk + 1
    /\ UNCHANGED <<fpc, fsize, FILE_SIZES, gremaining>>

\* Otherwise generate_test_file is called
PrepareGenerate ==
    /\ fpc = "prepare"
    /\ fk <= Len(FILE_SIZES)
    /\ \E found \in OnDisk(FILE_SIZES[fk].size_bytes) :
          /\ ~Reusable(found, FILE_SIZES[fk].size_bytes)
          /\ disk' = Put(disk, Filename(FILE_SIZES[fk].label), found)
    /\ fpc' = "generate"
    /\ UNCHANGED <<fsize, FILE_SIZES, fk, test_files, gremaining>>

\* generate_test_file: its own look at the file, then open(filepath, "wb"),
\* which leaves the file empty
GenerateOpen ==
    /\ fpc = "generate"
    /\ LET filename == Filename(FILE_SIZES[fk].label)
           size == FILE_SIZES[fk].size_bytes
       IN  IF Reusable(disk[filename], size)
           THEN /\ fpc' = "write"
                /\ gremaining' = 0
                /\ UNCHANGED disk
           ELSE /\ fpc' = "write"
                /\ gremaining' = size
                /\ disk' = [disk EXCEPT ![filename] = 0]
    /\ UNCHANGED <<fsize, FILE_SIZES, fk, test_files>>

\* chunk_size = 1024 * 1024
chunk_size == 1024 * 1024

\* while remaining > 0: f.write(os.urandom(min(chunk_size, remaining)))
GenerateWrite ==
    /\ fpc = "write"
    /\ gremaining > 0
    /\ LET write_size == Min(chunk_size, gremaining)
           filename == Filename(FILE_SIZES[fk].label)
       IN  /\ disk' = [disk EXCEPT ![filename] = @ + write_size]
           /\ gremaining' = gremaining - write_size
    /\ UNCHANGED <<fpc, fsize, FILE_SIZES, fk, test_files>>

\* return filepath; test_files[size_name] = filepath
GenerateReturn ==
    /\ fpc = "write"
    /\ gremaining = 0
    /\ test_files' = Put(test_files, FILE_SIZES[fk].label, Filename(FILE_SIZES[fk].label))
    /\ fk' = fk + 1
    /\ fpc' = "prepare"
    /\ UNCHANGED <<fsize, FILE_SIZES, disk, gremaining>>

\* Every size has its file: the benchmarks begin
PrepareDone ==
    /\ fpc = "prepare"
    /\ fk > Len(FILE_SIZES)
    /\ fpc' = "ready"
    /\ UNCHANGED <<fsize, FILE_SIZES, fk, test_files, disk, gremaining>>

InitFiles ==
    /\ InitServerIdle
    /\ StoreIdle
    /\ ClientIdle
    /\ UploadIdle
    /\ FilesIdle

NextFiles ==
    /\ \/ SizesPass
       \/ SizesDone
       \/ PrepareReuse
       \/ PrepareGenerate
       \/ GenerateOpen
       \/ GenerateWrite
       \/ GenerateReturn
       \/ PrepareDone
    /\ UNCHANGED <<server_vars, store_vars, client_vars, upload_vars, race_vars>>

\* The module-level code and run_benchmark are straight-line code of one
\* process: a step that can be taken is taken.
SpecFiles == InitFiles /\ [][NextFiles]_vars /\ WF_vars(NextFiles)

-----------------------------------------------------------------------------
\* client.py: the resources of upload_file

\* upload_file(endpoint, filepath) is called: url and start_time are set
UploadCall(endpoint) ==
    /\ upc = "idle"
    /\ utrial < MaxTrials
    /\ utrial' = utrial + 1
    /\ uendpoint' = endpoint
    /\ pending' = NoPending
    /\ opened' = Append(opened, [clients |-> 0, handles |-> 0])
    /\ upc' = "enter"
    /\ UNCHANGED <<clients, handles, exits>>

\* `async with httpx.AsyncClient(timeout=300.0) as client:` is entered
ClientEnter ==
    /\ upc = "enter"
    /\ clients' = clients \cup {utrial}
    /\ opened' = [opened EXCEPT ![utrial].clients = @ + 1]
    /\ upc' = "client"
    /\ UNCHANGED <<utrial, uendpoint, handles, pending, exits>>

\* `with open(filepath, "rb") as f:` is entered
FileOpen ==
    /\ upc = "client"
    /\ handles' = handles \cup {utrial}
    /\ opened' = [opened EXCEPT ![utrial].handles = @ + 1]
    /\ upc' = "file"
    /\ UNCHANGED <<utrial, uendpoint, clients, pending, exits>>

\* open() raises (the test file is gone): no file object exists, and the
\* exception leaves the `async with` block
FileOpenRaise ==
    /\ upc = "client"
    /\ pending' = [NoPending EXCEPT !.exc = "FileNotFoundError"]
    /\ upc' = "file_closed"
    /\ UNCHANGED <<utrial, uendpoint, clients, handles, opened, exits>>

\* `response = await client.post(...)`, of the raw body for a stream endpoint
\* and of the multipart form for the others: a response comes back, or the
\* POST raises
Post ==
    /\ upc = "file"
    /\ \E reply \in BasicReplies(uendpoint, 1024) : pending' = reply
    /\ upc' = "posted"
    /\ UNCHANGED <<utrial, uendpoint, clients, handles, opened, exits>>

\* (a variant: the block's resource released only when no exception is in flight)
WithExitOnSuccess(open, t, exc) == IF exc = "none" THEN open \ {t} ELSE open

\* Leaving a `with` block by its end or by an exception: __exit__ closes the
\* resource the block opened
WithExit(open, t, exc) == open \ {t}

\* the `with open(...)` block is left
FileExit ==
    /\ upc = "posted"
    /\ handles' = WithExit(handles, utrial, pending.exc)
    /\ upc' = "file_closed"
    /\ UNCHANGED <<utrial, uendpoint, clients, pending, opened, exits>>

\* the `async with httpx.AsyncClient(...)` block is left
ClientExit ==
    /\ upc = "file_closed"
    /\ clients' = WithExit(clients, utrial, pending.exc)
    /\ upc' = "client_closed"
    /\ UNCHANGED <<utrial, uendpoint, handles, pending, opened, exits>>

\* How a call ends: "ok", "error" (the non-200 dict) or the exception's name
ExitKind(result) == IF result.kind = "raise" THEN result.exc ELSE result.kind

\* After the blocks: the response is turned into the dict that is returned
UploadReturn ==
    /\ upc = "client_closed"
    /\ pending.exc = "none"
    /\ exits' = Append(exits, ExitKind(upload_file(pending)))
    /\ upc' = "idle"
    /\ UNCHANGED <<utrial, uendpoint, clients, handles, pending, opened>>

\* The exception of the POST or of open() leaves upload_file
UploadPropagate ==
    /\ upc = "client_closed"
    /\ pending.exc # "none"
    /\ exits' = Append(exits, ExitKind(upload_file(pending)))
    /\ upc' = "idle"
    /\ UNCHANGED <<utrial, uendpoint, clients, handles, pending, opened>>

\* Up to MaxTrials calls, one after another, to any endpoint
InitUpload ==
    /\ InitServerIdle
    /\ StoreIdle
    /\ ClientIdle
    /\ UploadIdle
    /\ FilesIdle

NextUpload ==
    /\ \/ \E endpoint \in Routes : UploadCall(endpoint)
       \/ ClientEnter
       \/ FileOpen
       \/ FileOpenRaise
       \/ Post
       \/ FileExit
       \/ ClientExit
       \/ UploadReturn
       \/ UploadPropagate
    /\ UNCHANGED <<server_vars, store_vars, client_vars, files_vars, race_vars>>

SpecUpload == InitUpload /\ [][NextUpload]_vars

-----------------------------------------------------------------------------
\* One request, any route, any body length, with the clock and the memory moving.
InitServer ==
    /\ now = 0
    /\ rss \in {m * 1048576 : m \in 0 .. MaxMem}
    /\ ctx = [c \in Requests |-> NoContext]
    /\ \E e \in Routes, n \in BodyLens :
          sreq = [r \in Requests |-> [endpoint |-> e, body_len |-> n]]
    /\ spc = [r \in Requests |-> IF r = 1 THEN "arrived" ELSE "none"]
    /\ mw = [r \in Requests |-> NoLocals]
    /\ hl = [r \in Requests |-> NoHandler]
    /\ resp = [r \in Requests |-> NoResponse]
    /\ entry_memory = [r \in Requests |-> UnsetMB]
    /\ StoreIdle
    /\ ClientIdle
    /\ UploadIdle
    /\ FilesIdle

NextServer ==
    /\ \/ ServerStep(1)
       \/ Tick
       \/ MemChange
    /\ ObserveEntry
    /\ UNCHANGED <<store_vars, client_vars, upload_vars, files_vars, race_vars>>

SpecServer == InitServer /\ [][NextServer]_vars

\* NumRequests requests in service at once, interleaved step by step: the odd
\* ones to a sync (thread pool) handler, the even ones to an async handler,
\* each with a body of one chunk.
ConcRoute(r) == IF r % 2 = 1 THEN "/upload/sync-uploadfile" ELSE "/upload/async-stream"
InitConc ==
    /\ now = 0
    /\ rss = 0
    /\ ctx = [c \in Requests |-> NoContext]
    /\ sreq = [r \in Requests |-> [endpoint |-> ConcRoute(r), body_len |-> CHUNK_SIZE]]
    /\ spc = [r \in Requests |-> "arrived"]
    /\ mw = [r \in Requests |-> NoLocals]
    /\ hl = [r \in Requests |-> NoHandler]
    /\ resp = [r \in Requests |-> NoResponse]
    /\ entry_memory = [r \in Requests |-> UnsetMB]
    /\ StoreIdle
    /\ ClientIdle
    /\ UploadIdle
    /\ FilesIdle

NextConc ==
    /\ \/ \E r \in Requests : ServerStep(r)
       \/ MemChange
    /\ UNCHANGED <<entry_memory, store_vars, client_vars, upload_vars, files_vars, race_vars>>

SpecConc == InitConc /\ [][NextConc]_vars

-----------------------------------------------------------------------------
\* Claims about the server.

Answered(r) == spc[r] = "responded"
AnsweredOK(r) == Answered(r) /\ resp[r].status = 200

\* C3: for every successful request the handler-local duration in the body is
\* at most the total duration in X-Total-Duration, and the four clock readings
\* are ordered: interceptor start <= handler start <= handler end <=
\* interceptor end.
C3_HandlerWithinTotal ==
    \A r \in Requests : AnsweredOK(r) =>
        /\ resp[r].body.handler_duration_seconds
               <= Float(resp[r].headers["X-Total-Duration"])
        /\ mw[r].start_time <= hl[r].handler_start_time
        /\ hl[r].handler_start_time <= hl[r].handler_end_time
        /\ hl[r].handler_end_time <= mw[r].end_time

C3_Witness ==
    \E r \in Requests :
        /\ AnsweredOK(r)
        /\ resp[r].body.handler_duration_seconds > 0
        /\ resp[r].body.handler_duration_seconds
               < Float(resp[r].headers["X-Total-Duration"])

\* C4: every response to every request, normal or abnormal, carries both
\* X-Total-Duration and X-Total-Memory-Delta.
C4_EveryResponseStamped ==
    \A r \in Requests : Answered(r) =>
        {"X-Total-Duration", "X-Total-Memory-Delta"} \subseteq DOMAIN resp[r].headers

\* C1: one writer, store missing at first: whenever save_results is not
\* running, the store holds exactly the runs it was called with, in call
\* order (nothing while it was never called); and every write keeps the runs
\* persisted before it, in their positions, and adds the new run at the end.
C1_AppendOnlyHistory ==
    /\ [](wpc[1] = "idle" =>
            /\ Persisted = calls
            /\ (calls = << >> => store = Missing))
    /\ [][store' # store => PersistedIn(store') = Append(Persisted, wrun[1])]_vars

C1_Witness ==
    /\ wpc[1] = "idle"
    /\ Len(calls) = MaxRuns
    /\ Len(Persisted) = MaxRuns
    /\ calls[1] # calls[2]

\* The result mapping of the row of a size: the one in test_results once the
\* row is appended, the one being filled while the row runs, empty before.
RowOf(label) == {k \in 1 .. Len(test_results) : test_results[k].file_size_label = label}
ResultsOf(label) ==
    IF RowOf(label) # {} THEN test_results[CHOOSE k \in RowOf(label) : TRUE].results
    ELSE IF cpc \in {"trial", "await"} /\ files[ci].label = label THEN endpoint_results
    ELSE EmptyDict

Labels == {files[k].label : k \in 1 .. Len(files)}
Pairs == {<<l, ENDPOINTS[j]>> : l \in Labels, j \in 1 .. Len(ENDPOINTS)}
Tried == {<<log[k].label, log[k].endpoint>> : k \in 1 .. Len(log)}
Succeeded == {<<log[k].label, log[k].endpoint>> : k \in {n \in 1 .. Len(log) : log[n].ok}}

\* C2: a strategy key is in a size's result mapping exactly when its trial
\* succeeded; a failed trial (non-200, timeout, transport exception) leaves no
\* entry and the run goes on: when run_benchmark is done every strategy of
\* every size was attempted, a FileSizeTest was appended for every size, and
\* the run is the last one of the saved history.
C2_FailedCellSkippedRunContinues ==
    /\ \A p \in Pairs : (EndpointName(p[2]) \in DOMAIN ResultsOf(p[1])) <=> p \in Succeeded
    /\ cpc = "done" =>
          /\ Tried = Pairs
          /\ Len(test_results) = Len(files)
          /\ \A k \in 1 .. Len(files) : test_results[k].file_size_label = files[k].label
          /\ Persisted # << >>
          /\ Persisted[Len(Persisted)].test_files = test_results

C2_Witness ==
    /\ cpc = "done"
    /\ Len(test_results) >= 2
    /\ test_results[1].results = EmptyDict
    /\ DOMAIN test_results[2].results = {"async-file", "async-stream"}
    /\ Persisted[Len(Persisted)].test_files = test_results

\* A trial that got a 200 response with a valid ServerResponse body
WellFormed(reply) == reply.exc = "none" /\ reply.status = 200 /\ "json" \in DOMAIN reply.text
Affected(reply, h) == h \notin DOMAIN reply.headers \/ reply.headers[h].text # "num"

\* C5: after a trial with status 200 and a valid body, the cell of the strategy
\* is in the result mapping; if X-Total-Duration is missing or malformed its
\* total duration and throughput are 0, and if X-Total-Memory-Delta is missing
\* or malformed its total memory delta is 0.
C5_DegradedHeadersDefaultToZero ==
    (last # << >> /\ WellFormed(last[1].reply)) =>
        /\ last[1].name \in DOMAIN endpoint_results
        /\ Affected(last[1].reply, "X-Total-Duration") =>
              /\ endpoint_results[last[1].name].total_duration_seconds = 0
              /\ endpoint_results[last[1].name].total_throughput_mbps = Zero
        /\ Affected(last[1].reply, "X-Total-Memory-Delta") =>
              endpoint_results[last[1].name].total_memory_delta_mb = Zero

\* Every cell recorded so far, in the current row or in an appended one
Cells ==
    {endpoint_results[n] : n \in DOMAIN endpoint_results}
    \cup UNION {{test_results[k].results[n] : n \in DOMAIN test_results[k].results} :
                   k \in 1 .. Len(test_results)}

\* C6: for every recorded cell the throughput is (bytes received / 1,048,576) /
\* total duration when the total duration is positive and 0 when it is 0; and
\* computing it never raises: every successful trial is recorded, whatever
\* total duration its header gave.
C6_ThroughputGuarded ==
    /\ \A m \in Cells :
          /\ m.total_duration_seconds > 0 =>
                m.total_throughput_mbps
                    = RatDivInt(Rat(m.file_size_bytes, 1048576), m.total_duration_seconds)
          /\ m.total_duration_seconds = 0 => m.total_throughput_mbps = Zero
          /\ m.total_throughput_mbps # ZeroDivisionError
    /\ (last # << >> /\ ReplyOK(last[1].reply)) => last[1].name \in DOMAIN endpoint_results

C6_Witness ==
    \E m, n \in Cells :
        /\ m.total_duration_seconds = 0 /\ m.total_throughput_mbps = Zero
        /\ n.total_duration_seconds = MaxClock
        /\ n.file_size_bytes = 2048
        /\ n.total_throughput_mbps = Rat(1, 512 * MaxClock)

\* The k-th trial of the fixed order: sizes in the order of `files`, and the
\* five endpoints in the order of ENDPOINTS within each size.
Order(k) == <<files[((k - 1) \div Len(ENDPOINTS)) + 1].label,
              ENDPOINTS[((k - 1) % Len(ENDPOINTS)) + 1]>>

\* C10: the trials run one at a time in the fixed order: the k-th finished
\* trial is the k-th pair of the order, at most one trial is in flight and it
\* is the next pair of the order, begun only after the one before it was
\* recorded or skipped; when run_benchmark is done each pair was attempted
\* exactly once; and the FileSizeTest records are in ascending size order, one
\* per size.
C10_SequentialFixedOrder ==
    /\ \A k \in 1 .. Len(log) : <<log[k].label, log[k].endpoint>> = Order(k)
    /\ Cardinality(in_flight) <= 1
    /\ in_flight # {} => (cpc = "await" /\ in_flight = {Order(Len(log) + 1)})
    /\ cpc = "await" => in_flight # {}
    /\ \A k \in 1 .. Len(test_results) :
          /\ test_results[k].file_size_label = files[k].label
          /\ test_results[k].file_size_bytes = files[k].size_bytes
          /\ k > 1 => test_results[k - 1].file_size_bytes < test_results[k].file_size_bytes
    /\ cpc = "done" =>
          /\ Len(log) = Len(files) * Len(ENDPOINTS)
          /\ Len(test_results) = Len(files)

C10_Witness ==
    /\ cpc = "done"
    /\ Len(files) >= 2
    /\ Len(log) = Len(files) * Len(ENDPOINTS)
    /\ log[Len(ENDPOINTS) + 1] = [label |-> <<2, "KB">>, endpoint |-> "/upload/sync-file", ok |-> TRUE]
    /\ test_results[2].file_size_bytes = 2048

\* C7: the start snapshot a handler has read from the request context is the
\* one the interceptor took for the same request, and the context of a request
\* in service holds that request's snapshot, under every interleaving.
C7_NoCrossRequestLeak ==
    \A r \in Requests :
        /\ spc[r] \in {"body", "exit", "returned", "raised"} =>
               hl[r].start_memory = mw[r].start_memory
        /\ spc[r] \in {"call_next", "entry", "body", "exit"} =>
               /\ ctx[ContextOf(r)].request_start_memory = mw[r].start_memory
               /\ ctx[ContextOf(r)].request_start_time = mw[r].start_time

C7_Witness ==
    \E r, q \in Requests :
        /\ r # q
        /\ spc[r] = "body" /\ spc[q] = "body"
        /\ mw[r].start_memory # mw[q].start_memory
        /\ hl[r].start_memory = mw[r].start_memory

C9_ReadsWholeBody ==
    /\ [](\A r \in Requests :
            /\ spc[r] \in {"body", "exit"} =>
                   hl[r].file_size + hl[r].remaining = sreq[r].body_len
            /\ spc[r] = "exit" => hl[r].remaining = 0
            /\ AnsweredOK(r) => resp[r].body.file_size_bytes = sreq[r].body_len
            /\ spc[r] = "body" =>
                   ENABLED (BytesLen(r) \/ ReadChunk(r) \/ StreamChunk(r)))
    /\ [][\A r \in Requests :
            (spc[r] = "body" /\ spc'[r] = "body" /\ hl'[r] # hl[r]) =>
                hl'[r].remaining < hl[r].remaining]_vars

C9_Witness ==
    /\ AnsweredOK(1)
    /\ sreq[1].endpoint = "/upload/async-stream"
    /\ sreq[1].body_len = 1048576
    /\ resp[1].body.file_size_bytes = 1048576

-----------------------------------------------------------------------------
\* Claims about the resources of upload_file.

\* The calls of upload_file that have returned or raised
Finished == 1 .. Len(exits)

\* C11: every call of upload_file opens exactly one HTTP client, and on each
\* of the exit paths that come after the POST (status 200, non-200 status,
\* timeout, transport exception) exactly one file handle; a call holds no
\* resource but its own; and when upload_file has returned or propagated its
\* exception, no client and no file handle opened by a finished call is open.
C11_ResourcesReleased ==
    /\ \A t \in Finished :
          /\ t \notin clients
          /\ t \notin handles
          /\ opened[t].clients = 1
          /\ exits[t] \in {"ok", "error", "TimeoutException", "ConnectError"} =>
                 opened[t].handles = 1
    /\ upc = "idle" => (clients = {} /\ handles = {})
    /\ clients \subseteq {utrial}
    /\ handles \subseteq {utrial}
    /\ \A t \in 1 .. Len(opened) : opened[t].clients <= 1 /\ opened[t].handles <= 1

C11_Witness ==
    /\ upc = "idle"
    /\ Len(exits) = 3
    /\ exits[1] = "ok"
    /\ exits[2] = "error"
    /\ exits[3] = "TimeoutException"
    /\ \A t \in 1 .. 3 : opened[t] = [clients |-> 1, handles |-> 1]
    /\ clients = {}
    /\ handles = {}

-----------------------------------------------------------------------------
\* Claims about FILE_SIZES and the test files.

\* The label of the k-th size by the thresholds: 1KB..512KB, 1MB..512MB, 1GB
ExpectedLabel(k) ==
    IF k <= 10 THEN <<2 ^ (k - 1), "KB">>
    ELSE IF k <= 20 THEN <<2 ^ (k - 11), "MB">>
    ELSE <<2 ^ (k - 21), "GB">>

\* C12: the loop that builds FILE_SIZES terminates; the list it leaves is
\* the doubling sequence 1024, 2048, ..., 1073741824 (21 entries, strictly
\* ascending), each size with the label of its threshold; the labels are
\* pairwise distinct; and the label-keyed test_files mapping gets one entry
\* per size, its file name made from the label, the names pairwise distinct.
C12_DoublingSequence ==
    /\ [](/\ Len(FILE_SIZES) <= 21
          /\ \A k \in 1 .. Len(FILE_SIZES) :
                /\ FILE_SIZES[k].size_bytes = 1024 * 2 ^ (k - 1)
                /\ FILE_SIZES[k].label = ExpectedLabel(k)
                /\ FILE_SIZES[k] = FileSizeEntry(k)
                /\ k > 1 => FILE_SIZES[k - 1].size_bytes < FILE_SIZES[k].size_bytes
          /\ \A j, k \in 1 .. Len(FILE_SIZES) :
                j # k => FILE_SIZES[j].label # FILE_SIZES[k].label
          /\ fpc # "sizes" =>
                /\ Len(FILE_SIZES) = 21
                /\ FILE_SIZES[1].size_bytes = 1024
                /\ FILE_SIZES[21].size_bytes = 1073741824
          /\ fpc \in {"prepare", "generate", "write"} =>
                DOMAIN test_files = {FILE_SIZES[k].label : k \in 1 .. fk - 1}
          /\ \A n \in DOMAIN test_files : test_files[n] = Filename(n)
          /\ fpc = "ready" =>
                /\ DOMAIN test_files = {FILE_SIZES[k].label : k \in 1 .. 21}
                /\ Cardinality(DOMAIN test_files) = 21
                /\ Cardinality({test_files[n] : n \in DOMAIN test_files}) = 21)
    /\ <>(fpc # "sizes")
    /\ <>(fpc = "ready")

C12_Witness ==
    /\ fpc = "ready"
    /\ Len(FILE_SIZES) = 21
    /\ FILE_SIZES[10] = [label |-> <<512, "KB">>, size_bytes |-> 524288]
    /\ FILE_SIZES[11] = [label |-> <<1, "MB">>, size_bytes |-> 1048576]
    /\ FILE_SIZES[21] = [label |-> <<1, "GB">>, size_bytes |-> 1073741824]
    /\ test_files[<<1, "GB">>] = <<"test_", <<1, "GB">>, ".bin">>
    /\ disk[<<"test_", <<1, "GB">>, ".bin">>] = 1073741824

-----------------------------------------------------------------------------
\* Claims about concurrent saves.

\* The runs written so far, in the order of the writes
Written == [k \in 1 .. Len(writes) |-> writes[k].run]

Holds(runs, run) == \E k \in 1 .. Len(runs) : runs[k] = run

AllIdle == \A w \in Writers : wpc[w] = "idle"

\* Every save so far was made by one and the same writer
SingleWriter ==
    \E w \in Writers :
        /\ \A v \in Writers \ {w} : wpc[v] = "idle"
        /\ \A k \in 1 .. Len(writes) : writes[k].writer = w

\* C13: save_results loads, appends and rewrites the whole store with no
\* lock.  When two writers have both loaded before either wrote, then after
\* both have written the store holds the last writer's run and lacks the
\* other writer's; whenever saves have overlapped and all have ended, the
\* store holds fewer runs than were written.  When no load has overlapped
\* another writer's save, and so under single-writer use, the store holds
\* every run written, in the order of the writes.
C13_LastWriterWins ==
    /\ (AllIdle /\ raced /\ Len(calls) = 2) =>
          /\ Len(writes) = 2
          /\ writes[1].writer # writes[2].writer
          /\ Persisted = <<writes[2].run>>
          /\ ~Holds(Persisted, writes[1].run)
    /\ (AllIdle /\ raced) => Len(Persisted) < Len(writes)
    /\ writes # << >> => Persisted[Len(Persisted)] = writes[Len(writes)].run
    /\ ~raced => Persisted = Written
    /\ SingleWriter => (~raced /\ Persisted = Written)

C13_Witness ==
    /\ AllIdle
    /\ raced
    /\ Len(calls) = 2
    /\ writes[1].writer = 2
    /\ writes[2].writer = 1
    /\ Persisted = <<calls[1]>>
    /\ ~Holds(Persisted, calls[2])

-----------------------------------------------------------------------------
\* Claims about a corrupt store.

Corrupt(s) == s.exists /\ ValidationFails(s.text)

\* C14: when the store exists and does not parse, save_results fails at the
\* load step: it never reaches add_run or the write, no step changes the
\* store, run_benchmark ends by the exception and never completes, and the
\* run passed to save_results is not persisted.  A store that is missing or
\* sound does get the run.
C14_CorruptStoreIsFatal ==
    /\ [](/\ Corrupt(store) =>
                /\ wpc[1] \notin {"add", "write"}
                /\ whist[1] = BenchmarkHistory(<< >>)
                /\ cpc # "done"
          /\ cpc = "crashed" =>
                /\ Corrupt(store)
                /\ wpc[1] = "raised"
                /\ Len(calls) = 1
                /\ wrun[1] = calls[1]
          /\ cpc = "done" => (~Corrupt(store) /\ Holds(Persisted, calls[1])))
    /\ [][Corrupt(store) => store' = store]_vars

C14_Witness ==
    /\ cpc = "crashed"
    /\ store = File([junk |-> "truncated"])
    /\ wpc[1] = "raised"
    /\ Len(calls) = 1
    /\ Len(calls[1].test_files) = 1
    /\ DOMAIN calls[1].test_files[1].results # {}

Init == InitServer
Next == NextServer
Spec == SpecServer
====
